---- MODULE Spec2Model ----
(***************************************************************************)
(* Cost model of runtime/src/cost_model.rs: the per-transaction cost       *)
(* aggregation (CostModel::calculate_cost), the instruction cost table it  *)
(* reads (ExecuteCostTable: upsert, get_cost, get_mode) and the sharing of *)
(* one CostModel behind an RwLock.                                         *)
(*                                                                         *)
(* u64 is modelled with WordBits bits instead of 64: U64_MAX is the        *)
(* largest cost, plain `+` and `*` overflow above it (panic when the build *)
(* has overflow checks, wrap otherwise) and saturating_add clamps to it.   *)
(***************************************************************************)
EXTENDS Integers, Sequences, FiniteSets, TLC

\* ---------------------------------------------------------------- bounds

\* Width of the modelled u64.
WordBits == 10
\* Writes (upsert_instruction_cost, initialize_cost_table) per behaviour.
MaxWrites == 2
\* Instructions per transaction.
MaxIx == 2
\* Signatures per transaction.
MaxSigs == 2
\* Reader threads sharing the cost model.
NumReaders == 3

U64_MAX == 2^WordBits - 1

\* ------------------------------------------- block_cost_limits (external)

SIGNATURE_COST == 3
WRITE_LOCK_UNITS == 2
DATA_BYTES_UNITS == 4
BUILT_IN_INSTRUCTION_COSTS ==
    << [key |-> "system_program", cost |-> 5],
       [key |-> "vote_program", cost |-> 7] >>

\* ------------------------------------------------------------ value space

\* Option<u64>::None
NoEntry == -1
\* A u64 computation that panicked on overflow (overflow checks on).
Panic == -2
NoKey == "none"

ProgramIds == {"prog1", "prog2", "system_program", "vote_program"}
\* Keys that never get a cost.
UnknownIds == {"unknown"}

VARIABLES
    instruction_execution_cost_table, \* CostModel's only field
    overflow_checks,                  \* build profile: does `+` panic on overflow
    tx,                               \* the transaction under estimation
    demote_program_write_locks,       \* the flag handed to calculate_cost
    last,                             \* the last call: its arguments and what it returned
    nwrites,                          \* writes done so far
    pc,                               \* the threads of the shared cost model
    lock_holder,                      \* RwLock<CostModel>: the thread holding write()
    tx_costs,                         \* what each reader thread computed
    writer_costs                      \* the costs the writer thread upserts

vars == << instruction_execution_cost_table, overflow_checks, tx,
           demote_program_write_locks, last, nwrites, pc, lock_holder,
           tx_costs, writer_costs >>

\* ------------------------------------------------ ExecuteCostTable (table)

EmptyMap == [k \in {} |-> 0]

\* ExecuteCostTable::default(): no entry, no occurrence, mode 0.
ExecuteCostTable_default ==
    [table |-> EmptyMap, occurrences |-> EmptyMap, mode |-> 0]

\* ExecuteCostTable::get_cost: exact lookup, no fallback.
get_cost(ct, key) ==
    IF key \in DOMAIN ct.table THEN ct.table[key] ELSE NoEntry

\* ExecuteCostTable::get_mode: the tracked most frequent cost, 0 when empty.
get_mode(ct) == ct.mode

\* ExecuteCostTable::get_cost_table: the mapping itself.
get_cost_table(ct) == ct.table

\* One entry less with cost v in the frequency count.
occurrences_remove(occ, v) ==
    IF occ[v] = 1
    THEN [x \in DOMAIN occ \ {v} |-> occ[x]]
    ELSE [occ EXCEPT ![v] = @ - 1]

\* One entry more with cost v in the frequency count.
occurrences_add(occ, v) ==
    [x \in DOMAIN occ \cup {v} |->
        IF x = v THEN (IF v \in DOMAIN occ THEN occ[v] + 1 ELSE 1) ELSE occ[x]]

\* The costs the mode may be: the most frequent ones (0 for an empty table).
mode_candidates(occ) ==
    IF DOMAIN occ = {} THEN {0}
    ELSE {v \in DOMAIN occ : \A w \in DOMAIN occ : occ[w] <= occ[v]}

\* The cost upsert stores: the new cost verbatim, or the truncated average.
upsert_cost(old, value) ==
    IF old = NoEntry THEN value ELSE (old + value) \div 2

\* ExecuteCostTable::upsert: the tables it may leave (one per choice of mode
\* among equally frequent costs).
upsert(ct, key, value) ==
    LET old == get_cost(ct, key)
        new == upsert_cost(old, value)
        t2  == [k \in DOMAIN ct.table \cup {key} |->
                   IF k = key THEN new ELSE ct.table[k]]
        o1  == IF old = NoEntry THEN ct.occurrences
               ELSE occurrences_remove(ct.occurrences, old)
        o2  == occurrences_add(o1, new)
    IN  {[table |-> t2, occurrences |-> o2, mode |-> m] : m \in mode_candidates(o2)}

\* ------------------------------------------------------------- arithmetic

\* u64 `+`: exact below U64_MAX, else a panic or a wrap as the build says.
Add(a, b) ==
    IF a = Panic \/ b = Panic THEN Panic
    ELSE IF a + b <= U64_MAX THEN a + b
    ELSE IF overflow_checks THEN Panic
    ELSE (a + b) % (U64_MAX + 1)

\* u64 `*`, likewise.
Mul(a, b) ==
    IF a = Panic \/ b = Panic THEN Panic
    ELSE IF a * b <= U64_MAX THEN a * b
    ELSE IF overflow_checks THEN Panic
    ELSE (a * b) % (U64_MAX + 1)

\* u64::saturating_add
saturating_add(a, b) == IF a + b > U64_MAX THEN U64_MAX ELSE a + b

\* ------------------------------------------------------------ transaction

\* SanitizedMessage::is_writable: writable by its place in the header, and
\* not a key called as a program when program write locks are demoted.
is_key_called_as_program(t, i) ==
    \E j \in 1..Len(t.instructions) : t.instructions[j].program_id_index = i

is_writable_index(t, i) ==
    IF i <= t.num_required_signatures
    THEN i <= t.num_required_signatures - t.num_readonly_signed_accounts
    ELSE i <= Len(t.account_keys) - t.num_readonly_unsigned_accounts

is_writable(t, i, demote) ==
    /\ is_writable_index(t, i)
    /\ ~(demote /\ is_key_called_as_program(t, i))

\* ------------------------------------------------------- TransactionCost

\* TransactionCost::new_with_capacity / default
new_with_capacity ==
    [writable_accounts |-> << >>, signature_cost |-> 0, write_lock_cost |-> 0,
     data_bytes_cost |-> 0, execution_cost |-> 0]

\* TransactionCost::sum
sum(tx_cost) ==
    Add(Add(Add(tx_cost.signature_cost, tx_cost.write_lock_cost),
            tx_cost.data_bytes_cost),
        tx_cost.execution_cost)

\* -------------------------------------------------------------- CostModel

\* CostModel::new / default
CostModel_new == ExecuteCostTable_default

\* find_instruction_cost pricing a program without a cost at zero.
find_instruction_cost_zero(self, program_key) ==
    LET cost == get_cost(self, program_key)
    IN  IF cost # NoEntry THEN cost ELSE 0

\* find_instruction_cost pricing a program without a cost at the worst case.
find_instruction_cost_worst_case(self, program_key) ==
    LET cost == get_cost(self, program_key)
    IN  IF cost # NoEntry THEN cost ELSE U64_MAX

\* CostModel::find_instruction_cost: the stored cost, else the mode.
find_instruction_cost(self, program_key) ==
    LET cost == get_cost(self, program_key)
    IN  IF cost # NoEntry THEN cost ELSE get_mode(self)

\* CostModel::get_instruction_cost_table
get_instruction_cost_table(self) == get_cost_table(self)

\* get_signature_cost charging one signature whatever their number.
get_signature_cost_of_one(t) == SIGNATURE_COST

\* CostModel::get_signature_cost
get_signature_cost(t) == Mul(Len(t.signatures), SIGNATURE_COST)

\* CostModel::get_write_lock_cost: the accounts from index i on.
RECURSIVE write_lock_from(_, _, _, _)
write_lock_from(tx_cost, t, demote, i) ==
    IF i > Len(t.account_keys) THEN tx_cost
    ELSE write_lock_from(
            IF is_writable(t, i, demote)
            THEN [tx_cost EXCEPT
                    !.writable_accounts = Append(@, t.account_keys[i]),
                    !.write_lock_cost = Add(@, WRITE_LOCK_UNITS)]
            ELSE tx_cost,
            t, demote, i + 1)

\* get_write_lock_cost pushing each writable account at the front.
RECURSIVE write_lock_front_from(_, _, _, _)
write_lock_front_from(tx_cost, t, demote, i) ==
    IF i > Len(t.account_keys) THEN tx_cost
    ELSE write_lock_front_from(
            IF is_writable(t, i, demote)
            THEN [tx_cost EXCEPT
                    !.writable_accounts = <<t.account_keys[i]>> \o @,
                    !.write_lock_cost = Add(@, WRITE_LOCK_UNITS)]
            ELSE tx_cost,
            t, demote, i + 1)

get_write_lock_cost_front(tx_cost, t, demote) ==
    write_lock_front_from(tx_cost, t, demote, 1)

get_write_lock_cost(tx_cost, t, demote) == write_lock_from(tx_cost, t, demote, 1)

\* CostModel::get_data_bytes_cost: the instructions from index j on.
RECURSIVE data_bytes_from(_, _, _)
data_bytes_from(data_bytes_cost, t, j) ==
    IF j > Len(t.instructions) THEN data_bytes_cost
    ELSE data_bytes_from(
            Add(data_bytes_cost, t.instructions[j].data_len \div DATA_BYTES_UNITS),
            t, j + 1)

get_data_bytes_cost(t) == data_bytes_from(0, t, 1)

\* Message::program_instructions_iter: the program id of instruction j.
program_id(t, j) == t.account_keys[t.instructions[j].program_id_index]

\* CostModel::get_transaction_cost: the instructions from index j on.
RECURSIVE transaction_cost_from(_, _, _, _)
transaction_cost_from(self, cost, t, j) ==
    IF j > Len(t.instructions) THEN cost
    ELSE transaction_cost_from(
            self, saturating_add(cost, find_instruction_cost(self, program_id(t, j))),
            t, j + 1)

\* get_transaction_cost accumulating with `+` instead of saturating_add.
RECURSIVE transaction_cost_plain_from(_, _, _, _)
transaction_cost_plain_from(self, cost, t, j) ==
    IF j > Len(t.instructions) THEN cost
    ELSE transaction_cost_plain_from(
            self, Add(cost, find_instruction_cost(self, program_id(t, j))),
            t, j + 1)

get_transaction_cost_plain(self, t) == transaction_cost_plain_from(self, 0, t, 1)

get_transaction_cost(self, t) == transaction_cost_from(self, 0, t, 1)

\* CostModel::calculate_cost
calculate_cost(self, t, demote) ==
    LET c1 == [new_with_capacity EXCEPT !.signature_cost = get_signature_cost(t)]
        c2 == get_write_lock_cost(c1, t, demote)
        c3 == [c2 EXCEPT !.data_bytes_cost = get_data_bytes_cost(t)]
    IN  [c3 EXCEPT !.execution_cost = get_transaction_cost(self, t)]

\* Result<u64, &'static str>
Ok(v) == [ok |-> TRUE, value |-> v]
Err == [ok |-> FALSE, value |-> NoEntry]

\* upsert_instruction_cost returning the cost it was given, not the stored one.
upsert_instruction_cost_of_input(self, program_key, cost) ==
    {[self |-> s, ret |-> Ok(cost)] : s \in upsert(self, program_key, cost)}

\* CostModel::upsert_instruction_cost: each outcome is the cost model it
\* leaves and the Result it returns.
upsert_instruction_cost(self, program_key, cost) ==
    {[self |-> s,
      ret  |-> IF get_cost(s, program_key) # NoEntry
               THEN Ok(get_cost(s, program_key)) ELSE Err]
        : s \in upsert(self, program_key, cost)}

\* CostModel::initialize_cost_table: upsert the entries from index i on.
RECURSIVE upsert_each(_, _, _)
upsert_each(selves, entries, i) ==
    IF i > Len(entries) THEN selves
    ELSE upsert_each(
            UNION {upsert(s, entries[i].key, entries[i].cost) : s \in selves},
            entries, i + 1)

\* initialize_cost_table without the built-in costs.
initialize_cost_table_as_given(self, cost_table) ==
    upsert_each({self}, cost_table, 1)

initialize_cost_table(self, cost_table) ==
    upsert_each({self}, cost_table \o BUILT_IN_INSTRUCTION_COSTS, 1)


\* ------------------------------------------------------------------ inputs

\* The programs and costs the maintenance path upserts.
UpsertKeys == {"prog1", "system_program"}
UpsertCosts == {100, 200, U64_MAX}

\* The cost tables initialize_cost_table is handed: up to two entries.
Entries ==
    {[key |-> "prog1", cost |-> 10], [key |-> "prog1", cost |-> 20],
     [key |-> "prog2", cost |-> 20], [key |-> "system_program", cost |-> 10]}
EntryLists ==
    {<< >>} \cup {<<e>> : e \in Entries} \cup {<<e1, e2>> : e1, e2 \in Entries}

\* The transaction of the tests: new_with_compiled_instructions with one
\* signer, two keys and two programs, no read-only account, empty data.
TestTx ==
    [signatures |-> <<1>>,
     num_required_signatures |-> 1,
     num_readonly_signed_accounts |-> 0,
     num_readonly_unsigned_accounts |-> 0,
     account_keys |-> <<"mint", "key1", "key2", "prog1", "prog2">>,
     instructions |-> << [program_id_index |-> 4, data_len |-> 0],
                         [program_id_index |-> 5, data_len |-> 0] >>]

\* -------------------------------------------------------------- the calls

NoCall ==
    [op |-> "none", key |-> NoKey, cost |-> NoEntry, cost_table |-> << >>,
     ret |-> Err, value |-> NoEntry, table |-> EmptyMap,
     tx_cost |-> new_with_capacity]

Writer == 0
Readers == 1..NumReaders
Threads == {Writer} \cup Readers
NoThread == -1

InitShared ==
    /\ pc = [t \in Threads |-> "spawned"]
    /\ lock_holder = NoThread
    /\ tx_costs = [r \in Readers |-> new_with_capacity]
    /\ writer_costs = <<100, 200>>

\* A fresh cost model, used from one thread.
Init ==
    /\ instruction_execution_cost_table = CostModel_new
    /\ overflow_checks \in BOOLEAN
    /\ tx = TestTx
    /\ demote_program_write_locks = TRUE
    /\ last = NoCall
    /\ nwrites = 0
    /\ InitShared

UpsertInstructionCost(program_key, cost) ==
    /\ nwrites < MaxWrites
    /\ \E o \in upsert_instruction_cost(instruction_execution_cost_table,
                                        program_key, cost) :
          /\ instruction_execution_cost_table' = o.self
          /\ last' = [NoCall EXCEPT !.op = "upsert_instruction_cost",
                                    !.key = program_key, !.cost = cost,
                                    !.ret = o.ret]
    /\ nwrites' = nwrites + 1
    /\ UNCHANGED << overflow_checks, tx, demote_program_write_locks, pc,
                    lock_holder, tx_costs, writer_costs >>

InitializeCostTable(cost_table) ==
    /\ nwrites < MaxWrites
    /\ \E s \in initialize_cost_table(instruction_execution_cost_table, cost_table) :
          instruction_execution_cost_table' = s
    /\ last' = [NoCall EXCEPT !.op = "initialize_cost_table",
                              !.cost_table = cost_table]
    /\ nwrites' = nwrites + 1
    /\ UNCHANGED << overflow_checks, tx, demote_program_write_locks, pc,
                    lock_holder, tx_costs, writer_costs >>

FindInstructionCost(program_key) ==
    /\ last' = [NoCall EXCEPT
                  !.op = "find_instruction_cost", !.key = program_key,
                  !.value = find_instruction_cost(instruction_execution_cost_table,
                                                  program_key)]
    /\ UNCHANGED << instruction_execution_cost_table, overflow_checks, tx,
                    demote_program_write_locks, nwrites, pc, lock_holder,
                    tx_costs, writer_costs >>

GetInstructionCostTable ==
    /\ last' = [NoCall EXCEPT
                  !.op = "get_instruction_cost_table",
                  !.table = get_instruction_cost_table(instruction_execution_cost_table)]
    /\ UNCHANGED << instruction_execution_cost_table, overflow_checks, tx,
                    demote_program_write_locks, nwrites, pc, lock_holder,
                    tx_costs, writer_costs >>



\* ------------------------------------------------ estimating a transaction

\* The account keys of a transaction: signers first.
KeyOrder == <<"mint", "signer2", "key1", "prog1", "prog2">>
\* The payload length of a program's instructions: below DATA_BYTES_UNITS
\* for prog1, above it for prog2.
DataLen(key) == IF key = "prog1" THEN 3 ELSE 9

Min(a, b) == IF a <= b THEN a ELSE b

\* The instructions a transaction over the first n keys may hold: each calls
\* one of the programs among them.
Instructions(n) ==
    {[program_id_index |-> i, data_len |-> DataLen(KeyOrder[i])] :
        i \in {i \in 1..n : KeyOrder[i] \in ProgramIds}}

InstructionLists(n) ==
    UNION {[1..m -> Instructions(n)] : m \in 0..MaxIx}

\* The headers of sanitized transactions over the first h[1] keys: h[2]
\* signers, of them h[3] read-only (never the fee payer), and h[4] read-only
\* accounts among the others.
Headers ==
    {h \in (1..Len(KeyOrder)) \X (1..MaxSigs) \X (0..MaxSigs) \X (0..Len(KeyOrder)) :
        /\ h[2] <= h[1]
        /\ h[3] < h[2]
        /\ h[4] <= h[1] - h[2]}

Transaction(h, ixs) ==
    [signatures |-> [i \in 1..h[2] |-> i],
     num_required_signatures |-> h[2],
     num_readonly_signed_accounts |-> h[3],
     num_readonly_unsigned_accounts |-> h[4],
     account_keys |-> SubSeq(KeyOrder, 1, h[1]),
     instructions |-> ixs]

Transactions ==
    UNION {{Transaction(h, ixs) : ixs \in InstructionLists(h[1])} : h \in Headers}

\* The programs and costs upserted between estimations.
CostKeys == {"prog1", "prog2"}
CostCosts == {8, U64_MAX}

InitCost ==
    /\ instruction_execution_cost_table = CostModel_new
    /\ overflow_checks \in BOOLEAN
    /\ tx \in Transactions
    /\ demote_program_write_locks \in BOOLEAN
    /\ last = NoCall
    /\ nwrites = 0
    /\ InitShared

\* calculate_cost recording, as a cost, the fallback it used for the first
\* instruction's program.
CalculateCostRecording ==
    /\ last' = [NoCall EXCEPT
                  !.op = "calculate_cost",
                  !.tx_cost = calculate_cost(instruction_execution_cost_table, tx,
                                             demote_program_write_locks)]
    /\ IF Len(tx.instructions) = 0
       THEN UNCHANGED instruction_execution_cost_table
       ELSE instruction_execution_cost_table' \in
                upsert(instruction_execution_cost_table, program_id(tx, 1),
                       find_instruction_cost(instruction_execution_cost_table,
                                             program_id(tx, 1)))
    /\ UNCHANGED << overflow_checks, tx, demote_program_write_locks, nwrites,
                    pc, lock_holder, tx_costs, writer_costs >>

CalculateCost ==
    /\ last' = [NoCall EXCEPT
                  !.op = "calculate_cost",
                  !.tx_cost = calculate_cost(instruction_execution_cost_table, tx,
                                             demote_program_write_locks)]
    /\ UNCHANGED << instruction_execution_cost_table, overflow_checks, tx,
                    demote_program_write_locks, nwrites, pc, lock_holder,
                    tx_costs, writer_costs >>

\* TransactionCost::sum of the cost calculate_cost returned.
Sum ==
    /\ last.op \in {"calculate_cost", "sum"}
    /\ last' = [last EXCEPT !.op = "sum", !.value = sum(last.tx_cost)]
    /\ UNCHANGED << instruction_execution_cost_table, overflow_checks, tx,
                    demote_program_write_locks, nwrites, pc, lock_holder,
                    tx_costs, writer_costs >>

\* Every call on one cost model, estimating the transaction of the tests.
Next ==
    \/ \E k \in UpsertKeys, c \in UpsertCosts : UpsertInstructionCost(k, c)
    \/ \E e \in EntryLists : InitializeCostTable(e)
    \/ \E k \in ProgramIds \cup UnknownIds : FindInstructionCost(k)
    \/ GetInstructionCostTable
    \/ CalculateCost
    \/ Sum

Spec == Init /\ [][Next]_vars

\* Estimating every transaction, with upserts in between.
NextCost ==
    \/ \E k \in CostKeys, c \in CostCosts : UpsertInstructionCost(k, c)
    \/ CalculateCost
    \/ Sum

SpecCost == InitCost /\ [][NextCost]_vars

\* ------------------------------------------- sharing behind an RwLock

\* The costs the writer thread upserts for prog1 and prog2.
WriterCosts == {<<c1, c2>> : c1, c2 \in {100, 200}}

InitConc ==
    /\ instruction_execution_cost_table = CostModel_new
    /\ overflow_checks \in BOOLEAN
    /\ tx = TestTx
    /\ demote_program_write_locks = TRUE
    /\ last = NoCall
    /\ nwrites = 0
    /\ pc = [t \in Threads |-> "spawned"]
    /\ lock_holder = NoThread
    /\ tx_costs = [r \in Readers |-> new_with_capacity]
    /\ writer_costs \in WriterCosts

\* A lock that is handed out while another thread holds it.
LockWriteHeld(t) ==
    /\ pc[t] = "spawned"
    /\ lock_holder' = t
    /\ pc' = [pc EXCEPT ![t] = "locked"]
    /\ UNCHANGED << instruction_execution_cost_table, overflow_checks, tx,
                    demote_program_write_locks, last, nwrites, tx_costs,
                    writer_costs >>

\* cost_model.write().unwrap(): waits until no thread holds the lock.
LockWrite(t) ==
    /\ pc[t] = "spawned"
    /\ lock_holder = NoThread
    /\ lock_holder' = t
    /\ pc' = [pc EXCEPT ![t] = "locked"]
    /\ UNCHANGED << instruction_execution_cost_table, overflow_checks, tx,
                    demote_program_write_locks, last, nwrites, tx_costs,
                    writer_costs >>

\* The writer thread's n-th assert!(upsert_instruction_cost(..).is_ok()).
WriterUpsert(n) ==
    /\ pc[Writer] = (IF n = 1 THEN "locked" ELSE "upserted1")
    /\ \E o \in upsert_instruction_cost(instruction_execution_cost_table,
                                        IF n = 1 THEN "prog1" ELSE "prog2",
                                        writer_costs[n]) :
          /\ instruction_execution_cost_table' = o.self
          /\ pc' = [pc EXCEPT ![Writer] =
                        IF ~o.ret.ok THEN "panicked"
                        ELSE IF n = 1 THEN "upserted1" ELSE "upserted2"]
    /\ UNCHANGED << overflow_checks, tx, demote_program_write_locks, last,
                    nwrites, lock_holder, tx_costs, writer_costs >>

\* A reader thread's calculate_cost and its two assertions.
ReaderCalculate(r) ==
    /\ pc[r] = "locked"
    /\ LET tx_cost == calculate_cost(instruction_execution_cost_table, tx, TRUE)
       IN  /\ tx_costs' = [tx_costs EXCEPT ![r] = tx_cost]
           /\ pc' = [pc EXCEPT ![r] =
                        IF /\ Len(tx_cost.writable_accounts) = 3
                           /\ tx_cost.write_lock_cost = Mul(WRITE_LOCK_UNITS, 3)
                        THEN "calculated" ELSE "panicked"]
    /\ UNCHANGED << instruction_execution_cost_table, overflow_checks, tx,
                    demote_program_write_locks, last, nwrites, lock_holder,
                    writer_costs >>

\* The end of a thread's closure drops its guard.
Unlock(t) ==
    /\ pc[t] \in {"upserted2", "calculated"}
    /\ lock_holder' = NoThread
    /\ pc' = [pc EXCEPT ![t] = "done"]
    /\ UNCHANGED << instruction_execution_cost_table, overflow_checks, tx,
                    demote_program_write_locks, last, nwrites, tx_costs,
                    writer_costs >>

NextConc ==
    \/ \E t \in Threads : LockWrite(t)
    \/ \E n \in {1, 2} : WriterUpsert(n)
    \/ \E r \in Readers : ReaderCalculate(r)
    \/ \E t \in Threads : Unlock(t)

SpecConc == InitConc /\ [][NextConc]_vars


\* =================================================================== claims

Table == instruction_execution_cost_table.table
Costs(ct) == {ct.table[k] : k \in DOMAIN ct.table}
Estimated == last.op \in {"calculate_cost", "sum"}

\* The frequency count and the mode of ct are those of its entries.
TrackingConsistent(ct) ==
    /\ DOMAIN ct.occurrences = Costs(ct)
    /\ \A v \in Costs(ct) :
          ct.occurrences[v] = Cardinality({k \in DOMAIN ct.table : ct.table[k] = v})
    /\ IF DOMAIN ct.table = {} THEN ct.mode = 0
       ELSE /\ ct.mode \in Costs(ct)
            /\ \A v \in Costs(ct) : ct.occurrences[v] <= ct.occurrences[ct.mode]

\* The table before the writer's upserts and the table after both.
PreUpsertTable == EmptyMap
PostUpsertTable ==
    [k \in {"prog1", "prog2"} |->
        IF k = "prog1" THEN writer_costs[1] ELSE writer_costs[2]]

\* C1: with one writer upserting prog1 and prog2 under one write lock and
\* readers calling calculate_cost, every reader that holds the lock reads the
\* table as it was before the upserts or as it is after both, with the mode
\* tracking in step with the stored costs; its execution_cost is twice the
\* default mode or the sum of the two upserted costs, and its write_lock_cost
\* and writable_accounts are the same either way. No assertion fails.
C1_ReadersSeePreOrPostUpsert ==
    /\ \A t \in Threads : pc[t] # "panicked"
    /\ \A r \in Readers :
        /\ pc[r] = "locked" =>
              /\ Table \in {PreUpsertTable, PostUpsertTable}
              /\ TrackingConsistent(instruction_execution_cost_table)
        /\ pc[r] \in {"calculated", "done"} =>
              /\ tx_costs[r].execution_cost \in
                    {2 * get_mode(CostModel_new), writer_costs[1] + writer_costs[2]}
              /\ tx_costs[r].write_lock_cost = 3 * WRITE_LOCK_UNITS
              /\ tx_costs[r].writable_accounts = <<"mint", "key1", "key2">>

\* One reader estimated before the writer (2 * default mode), one after
\* (100 + 200).
C1_Witness ==
    /\ writer_costs = <<100, 200>>
    /\ \E r1, r2 \in Readers :
          /\ pc[r1] = "done" /\ tx_costs[r1].execution_cost = 0
          /\ pc[r2] = "done" /\ tx_costs[r2].execution_cost = 300

\* C2: upsert_instruction_cost(id, c) stores c verbatim when id has no entry
\* and the truncated average (old + c) / 2 when id has cost old; it returns
\* Ok of the stored cost, which is what get_cost(id) gives right afterwards.
C2_UpsertStoresAverage ==
    [][last'.op = "upsert_instruction_cost" =>
         LET old    == get_cost(instruction_execution_cost_table, last'.key)
             stored == get_cost(instruction_execution_cost_table', last'.key)
         IN  /\ stored = (IF old = NoEntry THEN last'.cost
                          ELSE (old + last'.cost) \div 2)
             /\ last'.ret = [ok |-> TRUE, value |-> stored]]_vars

\* upsert(prog1, 100) then upsert(prog1, 200) returned Ok(150).
C2_Witness ==
    /\ last.op = "upsert_instruction_cost"
    /\ last.key = "prog1" /\ last.cost = 200
    /\ last.ret = [ok |-> TRUE, value |-> 150]
    /\ Table["prog1"] = 150

\* C3: find_instruction_cost(id) is the stored cost when id has an entry and
\* get_mode() when it has none, which is 0 on an empty table; it is never an
\* error.
C3_FindIsCostOrMode ==
    last.op = "find_instruction_cost" =>
        /\ last.value \in 0..U64_MAX
        /\ last.key \in DOMAIN Table => last.value = Table[last.key]
        /\ last.key \notin DOMAIN Table =>
              last.value = instruction_execution_cost_table.mode
        /\ DOMAIN Table = {} => last.value = 0

\* An unpriced program got the mode of a non-empty table.
C3_Witness ==
    /\ last.op = "find_instruction_cost"
    /\ last.key \notin DOMAIN Table
    /\ DOMAIN Table # {}
    /\ last.value = instruction_execution_cost_table.mode
    /\ last.value > 0

BuiltInIds ==
    {BUILT_IN_INSTRUCTION_COSTS[i].key : i \in 1..Len(BUILT_IN_INSTRUCTION_COSTS)}

\* C4 as stated: after initialize_cost_table(entries) a lookup of every
\* supplied program id returns the supplied cost, and every built-in program
\* id has a cost, for every supplied list.
C4_Original_EverySuppliedCostReturned ==
    last.op = "initialize_cost_table" =>
        /\ \A i \in 1..Len(last.cost_table) :
              find_instruction_cost(instruction_execution_cost_table,
                                    last.cost_table[i].key)
                 = last.cost_table[i].cost
        /\ \A b \in BuiltInIds :
              get_cost(instruction_execution_cost_table, b) # NoEntry

\* C4 amended: after initialize_cost_table(entries) every built-in program id
\* has a cost, for every supplied list; a lookup of a supplied program id
\* returns the supplied cost when the id is in the list once, is not a
\* built-in and had no entry before the call.
C4_SuppliedCostReturnedWhenFresh ==
    [][last'.op = "initialize_cost_table" =>
         /\ \A b \in BuiltInIds :
               get_cost(instruction_execution_cost_table', b) # NoEntry
         /\ \A i \in 1..Len(last'.cost_table) :
               ( /\ get_cost(instruction_execution_cost_table,
                             last'.cost_table[i].key) = NoEntry
                 /\ last'.cost_table[i].key \notin BuiltInIds
                 /\ \A j \in 1..Len(last'.cost_table) :
                       j # i => last'.cost_table[j].key # last'.cost_table[i].key )
               => find_instruction_cost(instruction_execution_cost_table',
                                        last'.cost_table[i].key)
                     = last'.cost_table[i].cost]_vars

\* Two distinct programs loaded into a fresh cost model, built-ins omitted.
C4_Witness ==
    /\ last.op = "initialize_cost_table"
    /\ nwrites = 1
    /\ last.cost_table = << [key |-> "prog1", cost |-> 10],
                            [key |-> "prog2", cost |-> 20] >>
    /\ Table["prog1"] = 10 /\ Table["prog2"] = 20
    /\ BuiltInIds \subseteq DOMAIN Table


\* The cost a lookup of instruction j's program gives, read off the table.
LookupCost(j) ==
    IF program_id(tx, j) \in DOMAIN Table THEN Table[program_id(tx, j)]
    ELSE instruction_execution_cost_table.mode

\* The unbounded sum of the lookups of instructions 1..n.
RECURSIVE LookupTotal(_)
LookupTotal(n) == IF n = 0 THEN 0 ELSE LookupTotal(n - 1) + LookupCost(n)

\* The unbounded data bytes cost of instructions 1..n.
RECURSIVE DataBytesTotal(_)
DataBytesTotal(n) ==
    IF n = 0 THEN 0
    ELSE DataBytesTotal(n - 1) + tx.instructions[n].data_len \div DATA_BYTES_UNITS

\* The indices of the accounts writable under the flag, and the k-th of them.
WritableIndices ==
    {i \in 1..Len(tx.account_keys) : is_writable(tx, i, demote_program_write_locks)}
NthWritable(k) ==
    CHOOSE i \in WritableIndices :
        Cardinality({j \in WritableIndices : j <= i}) = k

\* C5 as stated: every accumulation saturates. No cost field and no sum()
\* wraps or fails: each is its true total, clamped to U64_MAX.
C5_Original_AllAccumulationSaturates ==
    /\ Estimated =>
          /\ last.tx_cost.signature_cost =
                Min(U64_MAX, Len(tx.signatures) * SIGNATURE_COST)
          /\ last.tx_cost.write_lock_cost =
                Min(U64_MAX, Cardinality(WritableIndices) * WRITE_LOCK_UNITS)
          /\ last.tx_cost.data_bytes_cost =
                Min(U64_MAX, DataBytesTotal(Len(tx.instructions)))
          /\ last.tx_cost.execution_cost =
                Min(U64_MAX, LookupTotal(Len(tx.instructions)))
    /\ last.op = "sum" =>
          last.value =
             Min(U64_MAX, last.tx_cost.signature_cost + last.tx_cost.write_lock_cost
                          + last.tx_cost.data_bytes_cost + last.tx_cost.execution_cost)

\* C6: writable_accounts is exactly the account keys whose index is writable
\* under the flag, in account-list order (so writable signers come before
\* writable non-signers), and write_lock_cost is their number times
\* WRITE_LOCK_UNITS.
C6_WritableAccountsInOrder ==
    Estimated =>
        LET w == last.tx_cost.writable_accounts
        IN  /\ Len(w) = Cardinality(WritableIndices)
            /\ \A k \in 1..Len(w) : w[k] = tx.account_keys[NthWritable(k)]
            /\ \A k1, k2 \in 1..Len(w) :
                  ( /\ NthWritable(k1) <= tx.num_required_signatures
                    /\ NthWritable(k2) > tx.num_required_signatures ) => k1 < k2
            /\ last.tx_cost.write_lock_cost = Len(w) * WRITE_LOCK_UNITS

\* One writable signer and one writable non-signer, with demotion: two
\* accounts, the signer first, and a cost of 2 * WRITE_LOCK_UNITS.
C6_Witness ==
    /\ last.op = "calculate_cost"
    /\ demote_program_write_locks
    /\ tx.num_required_signatures = 1
    /\ Len(tx.account_keys) > 2
    /\ last.tx_cost.writable_accounts = <<"mint", "signer2">>
    /\ last.tx_cost.write_lock_cost = 2 * WRITE_LOCK_UNITS

\* C7: execution_cost is the saturating sum, over the instructions in program
\* order, of the stored cost of the instruction's program, or of get_mode()
\* when the program has no cost.
C7_ExecutionCostIsSaturatingSum ==
    Estimated =>
        /\ last.tx_cost.execution_cost = Min(U64_MAX, LookupTotal(Len(tx.instructions)))
        /\ ( /\ Len(tx.instructions) = 2
             /\ program_id(tx, 1) = program_id(tx, 2)
             /\ program_id(tx, 1) \in DOMAIN Table
             /\ 2 * Table[program_id(tx, 1)] <= U64_MAX )
           => last.tx_cost.execution_cost = 2 * Table[program_id(tx, 1)]
        /\ ( /\ Len(tx.instructions) = 2
             /\ program_id(tx, 1) \notin DOMAIN Table
             /\ program_id(tx, 2) \notin DOMAIN Table
             /\ 2 * instruction_execution_cost_table.mode <= U64_MAX )
           => last.tx_cost.execution_cost = 2 * instruction_execution_cost_table.mode

\* A priced and an unpriced program whose costs add up past U64_MAX.
C7_Witness ==
    /\ last.op = "calculate_cost"
    /\ Len(tx.instructions) = 2
    /\ program_id(tx, 1) \in DOMAIN Table
    /\ program_id(tx, 2) \notin DOMAIN Table
    /\ LookupTotal(2) > U64_MAX
    /\ last.tx_cost.execution_cost = U64_MAX

\* Two instructions of the same priced program cost twice its cost.
C7_WitnessSameProgram ==
    /\ last.op = "calculate_cost"
    /\ Len(tx.instructions) = 2
    /\ program_id(tx, 1) = "prog1" /\ program_id(tx, 2) = "prog1"
    /\ "prog1" \in DOMAIN Table /\ Table["prog1"] = 8
    /\ last.tx_cost.execution_cost = 16

\* C8 as stated: for a transaction with N signatures and no instruction,
\* signature_cost is N * SIGNATURE_COST and write_lock_cost, data_bytes_cost
\* and execution_cost are 0, whatever the account list and the flag.
C8_Original_OnlySignatureCost ==
    (Estimated /\ Len(tx.instructions) = 0) =>
        /\ last.tx_cost.signature_cost = Len(tx.signatures) * SIGNATURE_COST
        /\ last.tx_cost.write_lock_cost = 0
        /\ last.tx_cost.data_bytes_cost = 0
        /\ last.tx_cost.execution_cost = 0

\* C8 amended: calculate_cost always returns a TransactionCost; for a
\* transaction with N signatures and no instruction, signature_cost is
\* N * SIGNATURE_COST, data_bytes_cost and execution_cost are 0, and
\* write_lock_cost is WRITE_LOCK_UNITS for each account the header makes
\* writable, whatever the flag.
C8_NoInstructionCosts ==
    /\ Estimated =>
          /\ last.tx_cost.signature_cost \in 0..U64_MAX
          /\ last.tx_cost.write_lock_cost \in 0..U64_MAX
          /\ last.tx_cost.data_bytes_cost \in 0..U64_MAX
          /\ last.tx_cost.execution_cost \in 0..U64_MAX
    /\ (Estimated /\ Len(tx.instructions) = 0) =>
          /\ last.tx_cost.signature_cost = Len(tx.signatures) * SIGNATURE_COST
          /\ last.tx_cost.data_bytes_cost = 0
          /\ last.tx_cost.execution_cost = 0
          /\ last.tx_cost.write_lock_cost =
                WRITE_LOCK_UNITS *
                Cardinality({i \in 1..Len(tx.account_keys) : is_writable_index(tx, i)})

\* Two signatures, no instruction, a priced table: a signature cost and a
\* write lock cost, nothing else.
C8_Witness ==
    /\ last.op = "calculate_cost"
    /\ Len(tx.instructions) = 0
    /\ Len(tx.signatures) = 2
    /\ DOMAIN Table # {}
    /\ last.tx_cost.signature_cost = 2 * SIGNATURE_COST
    /\ last.tx_cost.write_lock_cost > 0
    /\ last.tx_cost.execution_cost = 0

\* C9: every program id of the table has one cost; get_mode() is a cost some
\* entry holds when the table is not empty and 0 when it is; so the fallback
\* find_instruction_cost gives an unpriced program is the cost of some priced
\* program once any program has a cost.
C9_ModeIsACostOfTheTable ==
    /\ \A k \in DOMAIN Table : Table[k] \in 0..U64_MAX
    /\ DOMAIN Table \subseteq ProgramIds
    /\ IF DOMAIN Table = {}
       THEN get_mode(instruction_execution_cost_table) = 0
       ELSE \E k \in DOMAIN Table :
               get_mode(instruction_execution_cost_table) = Table[k]
    /\ (last.op = "find_instruction_cost" /\ DOMAIN Table # {}) =>
          \E k \in DOMAIN Table : last.value = Table[k]

\* Entries with different costs, and an unpriced program given one of them.
C9_Witness ==
    /\ last.op = "find_instruction_cost"
    /\ last.key = "unknown"
    /\ Cardinality(Costs(instruction_execution_cost_table)) >= 3
    /\ last.value \in Costs(instruction_execution_cost_table)

ReadCalls ==
    {"calculate_cost", "find_instruction_cost", "get_instruction_cost_table", "sum"}
WriteCalls == {"upsert_instruction_cost", "initialize_cost_table"}

\* C10: calculate_cost, find_instruction_cost and get_instruction_cost_table
\* (and sum) leave the cost table and its mode as they were; only
\* upsert_instruction_cost and initialize_cost_table change them; and a
\* calculate_cost that follows another with no write in between returns the
\* same TransactionCost.
C10_ReadsLeaveTableUnchanged ==
    [][/\ last'.op \in ReadCalls =>
             instruction_execution_cost_table' = instruction_execution_cost_table
       /\ instruction_execution_cost_table' # instruction_execution_cost_table =>
             last'.op \in WriteCalls
       /\ (Estimated /\ last'.op = "calculate_cost") =>
             last'.tx_cost = last.tx_cost]_vars

\* calculate_cost, then sum, on a table where one program of the transaction
\* is priced and the other is not.
C10_Witness ==
    /\ last.op = "sum"
    /\ DOMAIN Table = {"prog1", "system_program", "vote_program"}
    /\ last.tx_cost.execution_cost > 0
    /\ last.value = sum(calculate_cost(instruction_execution_cost_table, tx,
                                       demote_program_write_locks))

====
